---- MODULE Spec2Model ----
(***************************************************************************)
(* Pronunciation scorer, prosody analyser and the /analyze request handler *)
(* of nlp-pronunciation-tool (src/pronunciation_analyzer.py, src/main.py). *)
(*                                                                         *)
(* Strings are sequences of one-character strings over Alphabet.  Floats   *)
(* are modelled by exact rationals: a sub-score is a pair <<num, den>> and *)
(* int(final_score) is the floor of the exact weighted sum.  Feature       *)
(* values are integers in fixed units: duration in twelfths of a second    *)
(* (so that expected_duration = len(target_text) / 12 is len(target_text)  *)
(* units), rms_energy in thousandths, zcr in hundredths, spectral_centroid *)
(* in Hz.  The sub-scores have small denominators, so the exact sum is an   *)
(* integer or well away from one and its floor is what int() yields for    *)
(* the double-precision sum, up to rounding at an exact integer.           *)
(***************************************************************************)
EXTENDS Integers, Sequences, FiniteSets

\* ------------------------------------------------------------------ bounds
MaxTargetLen == 3
MaxTransLen == 2
MaxDuration == 4
MaxReqLen == 3
MaxHeardLen == 1

\* ----------------------------------------------------------------- strings
\* "a": a letter; "A": its upper case; " ": whitespace; "?": one of the
\* characters ' ? , and the inverted question mark that the tokenizer removes.
Alphabet == {"a", "A", " ", "?"}

Whitespace == {" "}

Stripped == {"?"}

Strings(n) == UNION {[1..k -> Alphabet] : k \in 0..n}

Min2(a, b) == IF a < b THEN a ELSE b

Max2(a, b) == IF a > b THEN a ELSE b

LowerChar(c) == IF c = "A" THEN "a" ELSE c

\* str.lower()
Lower(s) == [i \in 1..Len(s) |-> LowerChar(s[i])]

RECURSIVE LStrip(_)
LStrip(s) == IF s # <<>> /\ Head(s) \in Whitespace THEN LStrip(Tail(s)) ELSE s

RECURSIVE RStrip(_)
RStrip(s) ==
  IF s # <<>> /\ s[Len(s)] \in Whitespace
  THEN RStrip(SubSeq(s, 1, Len(s) - 1))
  ELSE s

\* str.strip()
Strip(s) == RStrip(LStrip(s))

\* text.lower().strip()
Normalize(s) == Strip(Lower(s))

\* .replace("'", "").replace("?", "").replace(",", "").replace(<inverted ?>, "")
RemovePunct(s) == SelectSeq(s, LAMBDA c : c \notin Stripped)

\* str.split(): the maximal runs of non-whitespace characters, in order
RECURSIVE SplitFrom(_, _, _)
SplitFrom(s, i, cur) ==
  IF i > Len(s)
  THEN IF cur = <<>> THEN <<>> ELSE <<cur>>
  ELSE IF s[i] \in Whitespace
       THEN IF cur = <<>>
            THEN SplitFrom(s, i + 1, <<>>)
            ELSE <<cur>> \o SplitFrom(s, i + 1, <<>>)
       ELSE SplitFrom(s, i + 1, Append(cur, s[i]))

Split(s) == SplitFrom(s, 1, <<>>)

\* the word list of a normalized string
Words(norm) == Split(RemovePunct(norm))

Range(q) == {q[i] : i \in 1..Len(q)}

\* ------------------------------------------------------------ feature maps
\* A feature map is a function whose domain is the set of keys present.
EmptyMap == [k \in {} |-> 0]

\* dict.get(key, default)
Get(features, key, default) ==
  IF key \in DOMAIN features THEN features[key] ELSE default

\* ---------------------------------------------------- calculate_advanced_score
\* set(target_words).intersection(set(transcribed_words))
MatchingWords(target_words, transcribed_words) ==
  Range(target_words) \cap Range(transcribed_words)

\* word_score = (len(matching_words) / len(target_words)) * 100
WordScore(target_words, transcribed_words) ==
  <<100 * Cardinality(MatchingWords(target_words, transcribed_words)),
    Len(target_words)>>

RECURSIVE SortedSeq(_)
SortedSeq(S) ==
  IF S = {} THEN <<>>
  ELSE LET m == CHOOSE x \in S : \A y \in S : x <= y
       IN <<m>> \o SortedSeq(S \ {m})

\* jellyfish: the flagging loop of the Jaro similarity.  For each position i
\* of s1 in turn, the first unflagged position j of s2 within the search
\* range that holds the same character is flagged together with i.
RECURSIVE JaroFlags(_, _, _, _, _)
JaroFlags(s1, s2, i, f1, f2) ==
  IF i > Len(s1) THEN <<f1, f2>>
  ELSE LET range == Max2((Max2(Len(s1), Len(s2)) \div 2) - 1, 0)
           low == Max2(1, i - range)
           hi == Min2(i + range, Len(s2))
           cand == {j \in low..hi : j \notin f2 /\ s2[j] = s1[i]}
       IN IF cand = {}
          THEN JaroFlags(s1, s2, i + 1, f1, f2)
          ELSE LET j == CHOOSE x \in cand : \A y \in cand : x <= y
               IN JaroFlags(s1, s2, i + 1, f1 \cup {i}, f2 \cup {j})

\* jellyfish: the flagged characters of s1 and of s2 are paired in order and
\* trans_count is half the number of pairs that differ.
Transpositions(s1, s2, f1, f2) ==
  LET q1 == SortedSeq(f1)
      q2 == SortedSeq(f2)
  IN Cardinality({k \in 1..Len(q1) : s1[q1[k]] # s2[q2[k]]}) \div 2

RECURSIVE CommonPrefix(_, _, _, _)
CommonPrefix(s1, s2, i, j) ==
  IF i < j /\ s1[i + 1] = s2[i + 1] THEN CommonPrefix(s1, s2, i + 1, j) ELSE i

\* jellyfish.jaro_winkler_similarity(s1, s2), a rational <<num, den>> in [0, 1]
JaroWinkler(s1, s2) ==
  IF Len(s1) = 0 \/ Len(s2) = 0 THEN <<0, 1>>
  ELSE LET f == JaroFlags(s1, s2, 1, {}, {})
           c == Cardinality(f[1])
       IN IF c = 0 THEN <<0, 1>>
          ELSE LET t == Transpositions(s1, s2, f[1], f[2])
                   l1 == Len(s1)
                   l2 == Len(s2)
                   num == c * c * l2 + c * c * l1 + (c - t) * l1 * l2
                   den == 3 * l1 * l2 * c
               IN IF 10 * num > 7 * den
                  THEN LET p == CommonPrefix(s1, s2, 0, Min2(Min2(l1, l2), 4))
                       IN <<10 * num + p * (den - num), 10 * den>>
                  ELSE <<num, den>>

\* jaro_score = jellyfish.jaro_winkler_similarity(...) * 100
JaroScore(target_lower, transcription_lower) ==
  LET w == JaroWinkler(target_lower, transcription_lower)
  IN <<100 * w[1], w[2]>>

\* one row of the edit-distance table from the row above it
RECURSIVE LevRow(_, _, _, _, _)
LevRow(prev, ch, s2, j, row) ==
  IF j > Len(s2) THEN row
  ELSE LET cost == IF s2[j] = ch THEN 0 ELSE 1
           v == Min2(Min2(prev[j + 1] + 1, row[j] + 1), prev[j] + cost)
       IN LevRow(prev, ch, s2, j + 1, Append(row, v))

RECURSIVE LevRows(_, _, _, _)
LevRows(s1, s2, i, prev) ==
  IF i > Len(s1) THEN prev[Len(s2) + 1]
  ELSE LevRows(s1, s2, i + 1, LevRow(prev, s1[i], s2, 1, <<prev[1] + 1>>))

\* jellyfish.levenshtein_distance(s1, s2)
Levenshtein(s1, s2) ==
  LevRows(s1, s2, 1, [j \in 1..(Len(s2) + 1) |-> j - 1])

\* LevScore with the distance divided by the shorter length
LevScoreMinLen(target_lower, transcription_lower) ==
  LET lev_distance == Levenshtein(target_lower, transcription_lower)
      min_len == Min2(Len(target_lower), Len(transcription_lower))
  IN IF min_len > 0 THEN <<100 * (min_len - lev_distance), min_len>>
     ELSE <<0, 1>>

\* lev_score = (1 - (lev_distance / max_len)) * 100 if max_len > 0 else 0
LevScore(target_lower, transcription_lower) ==
  LET lev_distance == Levenshtein(target_lower, transcription_lower)
      max_len == Max2(Len(target_lower), Len(transcription_lower))
  IN IF max_len > 0 THEN <<100 * (max_len - lev_distance), max_len>>
     ELSE <<0, 1>>

\* The prosody sub-score.  expected_duration = len(target_text) / 12 is
\* Len(target_text) duration units; the bands are ratio > 1.5, < 0.6,
\* > 1.3, < 0.7 of actual_duration / expected_duration.
ProsodyScore(target_text, audio_features) ==
  IF DOMAIN audio_features = {} THEN 100
  ELSE LET expected == Len(target_text)
           actual == Get(audio_features, "duration", expected)
           rn == IF expected > 0 THEN actual ELSE 1
           rd == IF expected > 0 THEN expected ELSE 1
       IN IF 2 * rn > 3 * rd \/ 5 * rn < 3 * rd THEN 85
          ELSE IF 10 * rn > 13 * rd \/ 10 * rn < 7 * rd THEN 90
          ELSE 100

\* min(int(word_score * 0.40 + jaro_score * 0.25 + lev_score * 0.20
\*         + prosody_score * 0.15), 100)
WeightedScore(w, j, l, p) ==
  LET num == 40 * w[1] * j[2] * l[2] + 25 * j[1] * w[2] * l[2]
             + 20 * l[1] * w[2] * j[2] + 15 * p * w[2] * j[2] * l[2]
      den == 100 * w[2] * j[2] * l[2]
  IN Min2(num \div den, 100)

\* the local variables of calculate_advanced_score on the weighted path
SubScores(target_text, transcription, audio_features) ==
  LET target_lower == Normalize(target_text)
      transcription_lower == Normalize(transcription)
  IN [word_score |-> WordScore(Words(target_lower), Words(transcription_lower)),
      jaro_score |-> JaroScore(target_lower, transcription_lower),
      lev_score |-> LevScore(target_lower, transcription_lower),
      prosody_score |-> ProsodyScore(target_text, audio_features)]

ExactMatch(target_text, transcription) ==
  Normalize(target_text) = Normalize(transcription)

NoTargetWords(target_text) == Words(Normalize(target_text)) = <<>>

\* CalculateAdvancedScore without the exact-match return
ScoreWithoutExactMatch(target_text, transcription, audio_features) ==
  IF NoTargetWords(target_text) THEN 0
  ELSE LET s == SubScores(target_text, transcription, audio_features)
       IN WeightedScore(s.word_score, s.jaro_score, s.lev_score, s.prosody_score)

\* CalculateAdvancedScore returning 0 as well when nothing was transcribed
ScoreZeroOnSilence(target_text, transcription, audio_features) ==
  IF ExactMatch(target_text, transcription) THEN 100
  ELSE IF NoTargetWords(target_text) \/ NoTargetWords(transcription) THEN 0
  ELSE LET s == SubScores(target_text, transcription, audio_features)
       IN WeightedScore(s.word_score, s.jaro_score, s.lev_score, s.prosody_score)

\* calculate_advanced_score(target_text, transcription, audio_features)
CalculateAdvancedScore(target_text, transcription, audio_features) ==
  IF ExactMatch(target_text, transcription) THEN 100
  ELSE IF NoTargetWords(target_text) THEN 0
  ELSE LET s == SubScores(target_text, transcription, audio_features)
       IN WeightedScore(s.word_score, s.jaro_score, s.lev_score, s.prosody_score)

\* ------------------------------------------------------------ analyze_prosody
SpeakFaster == "Try speaking a bit faster for more natural rhythm"

SlowDown == "Slow down slightly to improve clarity and enunciation"

MoreVolume == "Speak with more volume and confidence"

ModerateVolume == "Try to moderate your volume slightly"

Articulation == "Focus on clear articulation of consonants"

\* actual_duration > expected_duration * 1.5 / < expected_duration * 0.6,
\* with expected_duration = len(target_text) / 12 and a missing duration read as 0
RateHint(features, target_text) ==
  LET expected == Len(target_text)
      actual == Get(features, "duration", 0)
  IN IF 2 * actual > 3 * expected THEN <<SpeakFaster>>
     ELSE IF 5 * actual < 3 * expected THEN <<SlowDown>>
     ELSE <<>>

\* rms_energy < 0.01 / > 0.2, in thousandths, a missing key read as 0
VolumeHint(features) ==
  IF Get(features, "rms_energy", 0) < 10 THEN <<MoreVolume>>
  ELSE IF Get(features, "rms_energy", 0) > 200 THEN <<ModerateVolume>>
  ELSE <<>>

\* zcr > 0.15, in hundredths, a missing key read as 0
ArticulationHint(features) ==
  IF Get(features, "zcr", 0) > 15 THEN <<Articulation>> ELSE <<>>

\* AnalyzeProsody with the volume analysis done before the rate analysis
AnalyzeProsodyVolumeFirst(features, target_text) ==
  VolumeHint(features) \o RateHint(features, target_text)
    \o ArticulationHint(features)

\* analyze_prosody(features, target_text)
AnalyzeProsody(features, target_text) ==
  RateHint(features, target_text) \o VolumeHint(features)
    \o ArticulationHint(features)

\* ------------------------------------------------------ extract_audio_features
\* What the audio file makes of the extraction: the step that throws
\* ("none" when all succeed) and the three means computed when none does.
Steps == {"load", "rms", "spectral_centroid", "zcr"}

RmsValues == {9, 10, 200, 201}

CentroidValues == {1500}

ZcrValues == {15, 16}

NoAudio == [fails |-> "none", rms |-> 0, centroid |-> 0, zcr |-> 0]

AudioFiles ==
  {[fails |-> st, rms |-> 0, centroid |-> 0, zcr |-> 0] : st \in Steps}
  \cup [fails : {"none"}, rms : RmsValues, centroid : CentroidValues,
        zcr : ZcrValues]

\* ExtractAudioFeatures without the except clause
ExtractWithoutExcept(a) ==
  [raised |-> a.fails # "none",
   features |-> IF a.fails # "none" THEN EmptyMap
                ELSE [rms_energy |-> a.rms, spectral_centroid |-> a.centroid,
                      zcr |-> a.zcr]]

\* ExtractAudioFeatures measuring the duration of a five-second recording too
ExtractWithDuration(a) ==
  [raised |-> FALSE,
   features |-> IF a.fails # "none" THEN EmptyMap
                ELSE [rms_energy |-> a.rms, spectral_centroid |-> a.centroid,
                      zcr |-> a.zcr, duration |-> 60]]

\* extract_audio_features(audio_path): the try block builds the three-key map,
\* the except clause turns every failure into the empty map.
ExtractAudioFeatures(a) ==
  [raised |-> FALSE,
   features |-> IF a.fails # "none" THEN EmptyMap
                ELSE [rms_energy |-> a.rms, spectral_centroid |-> a.centroid,
                      zcr |-> a.zcr]]

\* get_detailed_analysis(target_text, transcription, audio_path)
GetDetailedAnalysis(target, heard, a) ==
  LET x == ExtractAudioFeatures(a)
  IN IF x.raised
     THEN [raised |-> TRUE, score |-> -1, audio_features |-> EmptyMap,
           prosody_feedback |-> <<>>]
     ELSE [raised |-> FALSE,
           score |-> CalculateAdvancedScore(target, heard, x.features),
           audio_features |-> x.features,
           prosody_feedback |-> AnalyzeProsody(x.features, target)]

\* ------------------------------------------------------------------- state
VARIABLES
  pc,               \* position of the call or of the request handler
  target_text,      \* the target phrase
  transcription,    \* the transcribed phrase
  audio_features,   \* the feature map passed to or produced by the analysis
  score,            \* the score returned, -1 before any is
  prosody_feedback, \* the list of hints returned
  audio,            \* what the uploaded audio makes of the feature extraction
  temp_exists,      \* the temporary audio file exists on disk
  exc               \* the step whose exception is propagating, "none" if none

vars == <<pc, target_text, transcription, audio_features, score,
          prosody_feedback, audio, temp_exists, exc>>

\* ---------------------------------------------- feature maps drawn as inputs
Keys == {"duration", "rms_energy", "spectral_centroid", "zcr"}

DurationValues == 0..MaxDuration

KeyValues(k) ==
  CASE k = "duration" -> DurationValues
    [] k = "rms_energy" -> RmsValues
    [] k = "spectral_centroid" -> CentroidValues
    [] k = "zcr" -> ZcrValues

AllValues == UNION {KeyValues(k) : k \in Keys}

\* every map over a subset of the keys
FeatureMaps ==
  UNION {{f \in [K -> AllValues] : \A k \in K : f[k] \in KeyValues(k)} :
         K \in SUBSET Keys}

\* the maps that differ in what the scorer reads: emptiness and duration
ScoreFeatureMaps ==
  {f \in FeatureMaps : DOMAIN f \in {{}, {"duration"}, {"spectral_centroid"}}}

\* ----------------------------------- specification of calculate_advanced_score
InitScore ==
  /\ pc = "score_call"
  /\ target_text \in Strings(MaxTargetLen)
  /\ transcription \in Strings(MaxTransLen)
  /\ audio_features \in ScoreFeatureMaps
  /\ score = -1
  /\ prosody_feedback = <<>>
  /\ audio = NoAudio
  /\ temp_exists = FALSE
  /\ exc = "none"

ScoreReturn ==
  /\ pc = "score_call"
  /\ score' = CalculateAdvancedScore(target_text, transcription, audio_features)
  /\ pc' = "score_done"
  /\ UNCHANGED <<target_text, transcription, audio_features, prosody_feedback,
                 audio, temp_exists, exc>>

NextScore == ScoreReturn

SpecScore == InitScore /\ [][NextScore]_vars

\* ------------------------------------------- specification of analyze_prosody
InitProsody ==
  /\ pc = "prosody_call"
  /\ target_text \in Strings(MaxTargetLen)
  /\ transcription = <<>>
  /\ audio_features \in FeatureMaps
  /\ score = -1
  /\ prosody_feedback = <<>>
  /\ audio = NoAudio
  /\ temp_exists = FALSE
  /\ exc = "none"

ProsodyReturn ==
  /\ pc = "prosody_call"
  /\ prosody_feedback' = AnalyzeProsody(audio_features, target_text)
  /\ pc' = "prosody_done"
  /\ UNCHANGED <<target_text, transcription, audio_features, score, audio,
                 temp_exists, exc>>

NextProsody == ProsodyReturn

SpecProsody == InitProsody /\ [][NextProsody]_vars

\* ------------------------------------- specification of the /analyze handler
Init ==
  /\ pc = "request"
  /\ target_text \in Strings(MaxReqLen)
  /\ transcription = <<>>
  /\ audio_features = EmptyMap
  /\ score = -1
  /\ prosody_feedback = <<>>
  /\ audio = NoAudio
  /\ temp_exists = FALSE
  /\ exc = "none"

\* tempfile.NamedTemporaryFile(delete=False, suffix=".wav")
CreateTemp ==
  /\ pc = "request"
  /\ temp_exists' = TRUE
  /\ pc' = "read"
  /\ UNCHANGED <<target_text, transcription, audio_features, score,
                 prosody_feedback, audio, exc>>

\* content = await audio.read()
ReadUpload ==
  /\ pc = "read"
  /\ pc' = "write"
  /\ UNCHANGED <<target_text, transcription, audio_features, score,
                 prosody_feedback, audio, temp_exists, exc>>

\* audio.read() raises: the with block closes the file, which was opened
\* with delete=False, and the exception leaves the handler; the try
\* statement has not been entered.
ReadUploadRaises ==
  /\ pc = "read"
  /\ exc' = "read"
  /\ pc' = "raised"
  /\ UNCHANGED <<target_text, transcription, audio_features, score,
                 prosody_feedback, audio, temp_exists>>

\* temp_audio.write(content); temp_audio_path = temp_audio.name
WriteTemp ==
  /\ pc = "write"
  /\ pc' = "transcribe"
  /\ UNCHANGED <<target_text, transcription, audio_features, score,
                 prosody_feedback, audio, temp_exists, exc>>

\* temp_audio.write(content) raises, as audio.read() above
WriteTempRaises ==
  /\ pc = "write"
  /\ exc' = "write"
  /\ pc' = "raised"
  /\ UNCHANGED <<target_text, transcription, audio_features, score,
                 prosody_feedback, audio, temp_exists>>

\* transcription = transcribe_audio(temp_audio_path, language)
TranscribeAudio ==
  /\ pc = "transcribe"
  /\ \E heard \in Strings(MaxHeardLen) : transcription' = heard
  /\ pc' = "analyze"
  /\ UNCHANGED <<target_text, audio_features, score, prosody_feedback, audio,
                 temp_exists, exc>>

\* transcribe_audio prints the error and re-raises, inside the try statement
TranscribeRaises ==
  /\ pc = "transcribe"
  /\ exc' = "transcribe"
  /\ pc' = "finally"
  /\ UNCHANGED <<target_text, transcription, audio_features, score,
                 prosody_feedback, audio, temp_exists>>

\* analysis = get_detailed_analysis(target_text, transcription, temp_audio_path)
Analyze ==
  /\ pc = "analyze"
  /\ \E a \in AudioFiles :
       LET r == GetDetailedAnalysis(target_text, transcription, a)
       IN /\ audio' = a
          /\ score' = r.score
          /\ audio_features' = r.audio_features
          /\ prosody_feedback' = r.prosody_feedback
          /\ exc' = IF r.raised THEN "analyze" ELSE "none"
          /\ pc' = IF r.raised THEN "finally" ELSE "feedback"
  /\ UNCHANGED <<target_text, transcription, temp_exists>>

\* generate_feedback returns a dict (the parsed reply or the fallback); the
\* result is built and returned
GenerateFeedback ==
  /\ pc = "feedback"
  /\ pc' = "finally"
  /\ UNCHANGED <<target_text, transcription, audio_features, score,
                 prosody_feedback, audio, temp_exists, exc>>

\* the reply parses to JSON that is no object: feedback_data.get raises
FeedbackNotDict ==
  /\ pc = "feedback"
  /\ exc' = "feedback"
  /\ pc' = "finally"
  /\ UNCHANGED <<target_text, transcription, audio_features, score,
                 prosody_feedback, audio, temp_exists>>

\* finally: if os.path.exists(temp_audio_path): os.unlink(temp_audio_path)
Finally ==
  /\ pc = "finally"
  /\ temp_exists' = FALSE
  /\ pc' = IF exc # "none" THEN "raised" ELSE "returned"
  /\ UNCHANGED <<target_text, transcription, audio_features, score,
                 prosody_feedback, audio, exc>>

Next ==
  \/ CreateTemp
  \/ ReadUpload
  \/ ReadUploadRaises
  \/ WriteTemp
  \/ WriteTempRaises
  \/ TranscribeAudio
  \/ TranscribeRaises
  \/ Analyze
  \/ GenerateFeedback
  \/ FeedbackNotDict
  \/ Finally

Spec == Init /\ [][Next]_vars

\* ------------------------------------------------------------------ claims
ScoreDone == pc = "score_done"

ProsodyDone == pc = "prosody_done"

\* get_detailed_analysis has returned to the handler
AnalysisReturned ==
  pc \in {"feedback", "finally", "returned", "raised"}
  /\ exc \in {"none", "feedback"}

\* C1: calculate_advanced_score returns an integer s with 0 <= s <= 100 for
\* every target text, transcription and feature map.
C1_ScoreInRange == ScoreDone => score \in 0..100

C1_Witness ==
  /\ ScoreDone
  /\ "duration" \in DOMAIN audio_features
  /\ ~ExactMatch(target_text, transcription)
  /\ score > 0 /\ score < 100

\* C2: the score is 100 if and only if target and transcription are equal
\* after lowercasing and stripping leading and trailing whitespace, whatever
\* the feature map is.
C2_HundredIffNormalizedEqual ==
  ScoreDone =>
    (score = 100 <=> Strip(Lower(target_text)) = Strip(Lower(transcription)))

C2_Witness ==
  /\ ScoreDone
  /\ score = 100
  /\ target_text # transcription
  /\ Len(target_text) > 0
  /\ "duration" \in DOMAIN audio_features

\* C3: with an empty target text the score is 0 for every transcription,
\* the empty and the whitespace-only one included, and every feature map.
C3_EmptyTargetScoresZero == (ScoreDone /\ target_text = <<>>) => score = 0

\* C4: analyze_prosody of the empty feature map and any target text returns
\* exactly one hint, the low-volume hint.
C4_EmptyMapOnlyVolumeHint ==
  (ProsodyDone /\ audio_features = EmptyMap) =>
    prosody_feedback = <<MoreVolume>>

HintRank(h) ==
  CASE h \in {SpeakFaster, SlowDown} -> 1
    [] h \in {MoreVolume, ModerateVolume} -> 2
    [] h = Articulation -> 3
    [] OTHER -> 0

\* C5: analyze_prosody returns at most 3 hints, at most one rate hint, at
\* most one volume hint and at most one articulation hint, and the rate hint
\* precedes the volume hint, which precedes the articulation hint.
C5_HintsOrdered ==
  ProsodyDone =>
    /\ Len(prosody_feedback) <= 3
    /\ \A r \in 1..3 :
         Cardinality({i \in 1..Len(prosody_feedback) :
                        HintRank(prosody_feedback[i]) = r}) <= 1
    /\ \A i \in 1..Len(prosody_feedback) : HintRank(prosody_feedback[i]) > 0
    /\ \A i, j \in 1..Len(prosody_feedback) :
         i < j => HintRank(prosody_feedback[i]) < HintRank(prosody_feedback[j])

C5_Witness ==
  /\ ProsodyDone
  /\ prosody_feedback = <<SpeakFaster, ModerateVolume, Articulation>>

\* C6: extract_audio_features never propagates a failure: when loading or a
\* feature computation fails the map is empty, when all succeed it has
\* exactly the keys rms_energy, spectral_centroid and zcr, and
\* get_detailed_analysis returns a score and a list of hints either way.
C6_ExtractionNeverRaises ==
  /\ exc # "analyze"
  /\ AnalysisReturned =>
       /\ audio.fails # "none" => audio_features = EmptyMap
       /\ audio.fails = "none" =>
            DOMAIN audio_features = {"rms_energy", "spectral_centroid", "zcr"}
       /\ score \in 0..100
       /\ Len(prosody_feedback) \in 0..3
       /\ \A i \in 1..Len(prosody_feedback) : HintRank(prosody_feedback[i]) > 0

C6_Witness ==
  /\ pc = "returned"
  /\ audio.fails = "zcr"
  /\ audio_features = EmptyMap
  /\ score \in 1..99
  /\ prosody_feedback # <<>>

\* C7: once the handler has created the temporary file, the file no longer
\* exists when the handler has exited, whichever step failed or succeeded.
C7_TempFileReleased == pc \in {"returned", "raised"} => ~temp_exists

\* C8: word_score is the number of distinct target words that occur among
\* the transcribed words, divided by the number of distinct target words,
\* times 100, so repeating a word in the target does not change it.
C8_WordScoreOverDistinctWords ==
  (ScoreDone /\ ~ExactMatch(target_text, transcription)
     /\ ~NoTargetWords(target_text)) =>
    LET target_words == Words(Normalize(target_text))
        transcribed_words == Words(Normalize(transcription))
        w == WordScore(target_words, transcribed_words)
    IN w[1] * Cardinality(Range(target_words)) =
         100 * Cardinality(Range(target_words) \cap Range(transcribed_words))
           * w[2]

\* C9: for a target of at least one word and a transcription empty after
\* trimming, the word, Jaro-Winkler and Levenshtein sub-scores are 0 and the
\* score is the truncated prosody contribution, more than 0 and at most 40;
\* a score of 0 is returned only when the target has no words.
C9_SilenceKeepsProsodyFloor ==
  ScoreDone =>
    /\ score = 0 => Split(RemovePunct(Strip(Lower(target_text)))) = <<>>
    /\ (Split(RemovePunct(Strip(Lower(target_text)))) # <<>>
        /\ Strip(Lower(transcription)) = <<>>) =>
         LET s == SubScores(target_text, transcription, audio_features)
         IN /\ s.word_score[1] = 0
            /\ s.jaro_score[1] = 0
            /\ s.lev_score[1] = 0
            /\ score = (15 * s.prosody_score) \div 100
            /\ score > 0 /\ score <= 40

C9_Witness ==
  /\ ScoreDone
  /\ ~NoTargetWords(target_text)
  /\ Len(transcription) > 0
  /\ Strip(Lower(transcription)) = <<>>
  /\ score = 12

\* C10: extract_audio_features never sets a duration, so for a target text
\* of length >= 1 get_detailed_analysis returns hints that start with the
\* slow-down hint and never hold the speak-faster hint, while the scorer's
\* prosody sub-score for the same call is 100.
C10_AlwaysSlowDown ==
  (AnalysisReturned /\ Len(target_text) >= 1) =>
    /\ "duration" \notin DOMAIN audio_features
    /\ prosody_feedback # <<>>
    /\ prosody_feedback[1] = SlowDown
    /\ \A i \in 1..Len(prosody_feedback) : prosody_feedback[i] # SpeakFaster
    /\ ProsodyScore(target_text, audio_features) = 100

C10_Witness ==
  /\ pc = "returned"
  /\ audio.fails = "none"
  /\ Len(target_text) >= 1
  /\ prosody_feedback = <<SlowDown, ModerateVolume, Articulation>>
  /\ score \in 1..99

====
